---- MODULE Spec2Model ----
(***************************************************************************)
(* Model of backend/app/login.py: the /auth/register and /auth/login      *)
(* handlers, the e-mail normaliser they share, passlib's bcrypt hasher,   *)
(* and the users table they read and write through a per-request session. *)
(*                                                                         *)
(* Strings are sequences of one-character strings.  Each request handler  *)
(* runs in a slot of Calls; one action is one step of a handler between   *)
(* two points where another request can interleave (each database round   *)
(* trip, the hash, the token).                                             *)
(***************************************************************************)
EXTENDS Integers, Sequences, FiniteSets, TLC

VARIABLES calls, store, nextId, probe

vars == <<calls, store, nextId, probe>>

-----------------------------------------------------------------------------
(* Bounds *)

\* request handlers that can be in flight at once
NumCalls == 2
\* distinct salts bcrypt can draw
NumSalts == 1
\* longest input of the normaliser probe
MaxNormLen == 3

-----------------------------------------------------------------------------
(* Program constants *)

HTTP_201_CREATED == 201
HTTP_409_CONFLICT == 409
HTTP_401_UNAUTHORIZED == 401
\* bcrypt reads at most this many bytes of the secret
TruncateSize == 72

-----------------------------------------------------------------------------
(* Strings *)

RECURSIVE SeqsUpTo(_, _)
SeqsUpTo(S, n) ==
  IF n = 0 THEN {<<>>}
  ELSE LET shorter == SeqsUpTo(S, n - 1)
       IN shorter \cup {Append(s, x) : s \in {t \in shorter : Len(t) = n - 1}, x \in S}

Whitespace == {" ", "\t"}

RECURSIVE lstrip(_)
lstrip(s) == IF s # <<>> /\ Head(s) \in Whitespace THEN lstrip(Tail(s)) ELSE s

RECURSIVE rstrip(_)
rstrip(s) ==
  IF s # <<>> /\ s[Len(s)] \in Whitespace THEN rstrip(SubSeq(s, 1, Len(s) - 1)) ELSE s

strip(s) == rstrip(lstrip(s))

lower_char(ch) ==
  CASE ch = "A" -> "a"
    [] ch = "B" -> "b"
    [] ch = "E" -> "e"
    [] ch = "X" -> "x"
    [] OTHER -> ch

lower(s) == [i \in DOMAIN s |-> lower_char(s[i])]

\* a normaliser that drops at most one blank at each end
normalize_email_one_blank(email) ==
  LET l == IF email # <<>> /\ Head(email) \in Whitespace THEN Tail(email) ELSE email
      r == IF l # <<>> /\ l[Len(l)] \in Whitespace THEN SubSeq(l, 1, Len(l) - 1) ELSE l
  IN lower(r)

normalize_email(email) == lower(strip(email))

digit(n) ==
  CASE n = 0 -> "0" [] n = 1 -> "1" [] n = 2 -> "2" [] n = 3 -> "3" [] n = 4 -> "4"
    [] n = 5 -> "5" [] n = 6 -> "6" [] n = 7 -> "7" [] n = 8 -> "8" [] n = 9 -> "9"

RECURSIVE str(_)
str(n) == IF n < 10 THEN <<digit(n)>> ELSE Append(str(n \div 10), digit(n % 10))

-----------------------------------------------------------------------------
(* passlib.hash.bcrypt *)

Salts == 1..NumSalts

truncate(secret) ==
  IF Len(secret) > TruncateSize THEN SubSeq(secret, 1, TruncateSize) ELSE secret

\* the digest is taken as an injective function of the salt and of the bytes
\* bcrypt reads
bcrypt_hash(secret, salt) == [salt |-> salt, digest |-> <<salt, truncate(secret)>>]

bcrypt_verify(secret, stored) == bcrypt_hash(secret, stored.salt).digest = stored.digest

-----------------------------------------------------------------------------
(* Inputs *)

Calls == 1..NumCalls

\* payload.email: two spellings of one address, and another address
RawEmails == {<<"a">>, <<" ", "A">>, <<"b">>}

Long == [i \in 1..TruncateSize |-> "x"]

\* payload.password: a short one, one of exactly TruncateSize bytes, and that
\* one with a further byte
Passwords == {<<"p", "w">>, Long, Append(Long, "y")}

-----------------------------------------------------------------------------
(* Responses *)

\* what a handler ends with: a returned payload, a raised HTTPException, or
\* an exception of a collaborator that leaves the handler uncaught
Response(kind, status, detail, token) ==
  [kind |-> kind, status |-> status, detail |-> detail, token |-> token]

\* routes/authorize.py: a bearer credential bound to its subject
create_access_token(sub) == [sub |-> sub]

TokenOut(status, token) ==
  Response("return", status, "", <<[access_token |-> token, token_type |-> "bearer"]>>)

\* the pre-check's raise with the status of a malformed request
DuplicateAtPreCheckBadRequest ==
  Response("HTTPException", 400, "Email already registered", <<>>)

\* register, the pre-check's raise
DuplicateAtPreCheck ==
  Response("HTTPException", HTTP_409_CONFLICT, "Email already registered", <<>>)

\* commit without the except branch: the IntegrityError leaves the handler
DuplicateAtCommitUncaught == Response("fault", 500, "IntegrityError", <<>>)

\* the except branch raising with the database's wording
DuplicateAtCommitDetail ==
  Response("HTTPException", HTTP_409_CONFLICT, "UNIQUE constraint failed: users.email", <<>>)

\* register, the raise of the except IntegrityError branch
DuplicateAtCommit ==
  Response("HTTPException", HTTP_409_CONFLICT, "Email already registered", <<>>)

\* the missing-user raise that names the cause
InvalidAtLookupNotFound ==
  Response("HTTPException", 404, "User not found", <<>>)

\* login, the raise for a missing user
InvalidAtLookup ==
  Response("HTTPException", HTTP_401_UNAUTHORIZED, "Invalid credentials", <<>>)

\* login, the raise for a password mismatch
InvalidAtVerify ==
  Response("HTTPException", HTTP_401_UNAUTHORIZED, "Invalid credentials", <<>>)

\* the collaborator a handler is calling at each step, and the exception it
\* raises when it is unavailable
FaultAt(pc) ==
  CASE pc \in {"precheck", "commit", "refresh", "lookup"} -> "StoreUnreachable"
    [] pc \in {"hash", "verify"} -> "HashingUnavailable"
    [] pc = "token" -> "IssuerUnavailable"

\* a catch-all around the handler body that answers every exception of a
\* collaborator as a failed authentication
PropagatedAsInvalid(exc) ==
  Response("HTTPException", HTTP_401_UNAUTHORIZED, "Invalid credentials", <<>>)

\* neither handler has an except clause for it: the exception leaves as it is
Propagated(exc) == Response("fault", 500, exc, <<>>)

-----------------------------------------------------------------------------
(* The users table (routes/database.py) *)

\* the User row object: id is 0 until the INSERT assigns it
User(email, password_hash) == [id |-> 0, email |-> email, password_hash |-> password_hash]

\* db.query(User).filter(User.email == email).first(): <<>> or <<row>>
first_by_email(email) ==
  IF \E a \in store : a.email = email
  THEN <<CHOOSE a \in store : a.email = email>>
  ELSE <<>>

\* the unique constraint on users.email, raised as IntegrityError by the INSERT
IntegrityError(row) == \E a \in store : a.email = row.email

-----------------------------------------------------------------------------
(* State *)

Idle ==
  [op |-> "none", raw |-> <<>>, password |-> <<>>, pc |-> "idle", email |-> <<>>,
   user |-> <<>>, out |-> <<>>, before |-> {}, raised |-> <<>>]

NoProbe == [stage |-> 0, in |-> <<>>, once |-> <<>>, twice |-> <<>>]

Init ==
  /\ calls = [c \in Calls |-> Idle]
  /\ store = {}
  /\ nextId = 1
  /\ probe = NoProbe

\* the accounts whose e-mail is a spelling of raw
Holders(raw) == {a \in store : normalize_email(a.email) = normalize_email(raw)}

Finish(c, response) == calls' = [calls EXCEPT ![c].pc = "done", ![c].out = <<response>>]

\* a request arrives: payload (email, password) for one of the two endpoints.
\* before records the ids of the accounts that hold its address when it arrives.
Invoke(c) ==
  /\ calls[c].pc = "idle"
  /\ \E op \in {"register", "login"}, raw \in RawEmails, password \in Passwords :
       calls' = [calls EXCEPT ![c] =
                   [Idle EXCEPT !.op = op, !.raw = raw, !.password = password,
                                !.pc = IF op = "register" THEN "precheck" ELSE "lookup",
                                !.before = {a.id : a \in Holders(raw)}]]
  /\ UNCHANGED <<store, nextId, probe>>

\* the response is sent and the handler's slot is free again
Return(c) ==
  /\ calls[c].pc = "done"
  /\ calls' = [calls EXCEPT ![c] = Idle]
  /\ UNCHANGED <<store, nextId, probe>>

\* register, steps 1 and 2
RegPreCheck(c) ==
  /\ calls[c].op = "register" /\ calls[c].pc = "precheck"
  /\ LET email == normalize_email(calls[c].raw)
     IN IF first_by_email(email) # <<>>
        THEN calls' = [calls EXCEPT ![c].email = email, ![c].pc = "done",
                                    ![c].out = <<DuplicateAtPreCheck>>]
        ELSE calls' = [calls EXCEPT ![c].email = email, ![c].pc = "hash"]
  /\ UNCHANGED <<store, nextId, probe>>

\* register, step 3 with the row as the request sends it: the raw e-mail
RegHashRawEmail(c) ==
  /\ calls[c].op = "register" /\ calls[c].pc = "hash"
  /\ \E salt \in Salts :
       calls' = [calls EXCEPT
                   ![c].user = <<User(calls[c].raw, bcrypt_hash(calls[c].password, salt))>>,
                   ![c].pc = "commit"]
  /\ UNCHANGED <<store, nextId, probe>>

\* register, steps 3 and 4 with the row's e-mail stripped but not lower-cased
RegHashStripOnly(c) ==
  /\ calls[c].op = "register" /\ calls[c].pc = "hash"
  /\ \E salt \in Salts :
       calls' = [calls EXCEPT
                   ![c].user = <<User(strip(calls[c].raw),
                                      bcrypt_hash(calls[c].password, salt))>>,
                   ![c].pc = "commit"]
  /\ UNCHANGED <<store, nextId, probe>>

\* register, steps 3 and 4: hash the password, build the row, db.add
RegHash(c) ==
  /\ calls[c].op = "register" /\ calls[c].pc = "hash"
  /\ \E salt \in Salts :
       calls' = [calls EXCEPT
                   ![c].user = <<User(calls[c].email, bcrypt_hash(calls[c].password, salt))>>,
                   ![c].pc = "commit"]
  /\ UNCHANGED <<store, nextId, probe>>

\* register, step 5 as an upsert: on a taken e-mail the existing row takes the
\* new password hash
RegCommitUpsert(c) ==
  /\ calls[c].op = "register" /\ calls[c].pc = "commit"
  /\ LET row == calls[c].user[1]
     IN IF IntegrityError(row)
        THEN LET old == CHOOSE a \in store : a.email = row.email
                 new == [old EXCEPT !.password_hash = row.password_hash]
             IN /\ store' = (store \ {old}) \cup {new}
                /\ calls' = [calls EXCEPT ![c].user = <<new>>, ![c].pc = "refresh"]
                /\ UNCHANGED nextId
        ELSE /\ store' = store \cup {[row EXCEPT !.id = nextId]}
             /\ nextId' = nextId + 1
             /\ calls' = [calls EXCEPT ![c].user = <<[row EXCEPT !.id = nextId]>>,
                                       ![c].pc = "refresh"]
  /\ UNCHANGED probe

\* register, step 5 retrying: on a taken e-mail the handler rolls back and
\* commits the same row again
RegCommitRetry(c) ==
  /\ calls[c].op = "register" /\ calls[c].pc = "commit"
  /\ LET row == calls[c].user[1]
     IN IF IntegrityError(row)
        THEN UNCHANGED <<calls, store, nextId>>
        ELSE /\ store' = store \cup {[row EXCEPT !.id = nextId]}
             /\ nextId' = nextId + 1
             /\ calls' = [calls EXCEPT ![c].user = <<[row EXCEPT !.id = nextId]>>,
                                       ![c].pc = "refresh"]
  /\ UNCHANGED probe

\* register, step 5: db.commit() flushes the INSERT; the row gets its id
RegCommit(c) ==
  /\ calls[c].op = "register" /\ calls[c].pc = "commit"
  /\ LET row == calls[c].user[1]
     IN IF IntegrityError(row)
        THEN /\ Finish(c, DuplicateAtCommit)
             /\ UNCHANGED <<store, nextId>>
        ELSE /\ store' = store \cup {[row EXCEPT !.id = nextId]}
             /\ nextId' = nextId + 1
             /\ calls' = [calls EXCEPT ![c].user = <<[row EXCEPT !.id = nextId]>>,
                                       ![c].pc = "refresh"]
  /\ UNCHANGED probe

\* db.refresh(user): reload the row by its primary key
RegRefresh(c) ==
  /\ calls[c].op = "register" /\ calls[c].pc = "refresh"
  /\ calls' = [calls EXCEPT
                 ![c].user = <<CHOOSE a \in store : a.id = calls[c].user[1].id>>,
                 ![c].pc = "token"]
  /\ UNCHANGED <<store, nextId, probe>>

\* register, steps 6 and 7
RegToken(c) ==
  /\ calls[c].op = "register" /\ calls[c].pc = "token"
  /\ Finish(c, TokenOut(HTTP_201_CREATED, create_access_token(str(calls[c].user[1].id))))
  /\ UNCHANGED <<store, nextId, probe>>

\* login, steps 1 and 2 as a get-or-create: a missing user is inserted
LoginLookupCreates(c) ==
  /\ calls[c].op = "login" /\ calls[c].pc = "lookup"
  /\ LET email == normalize_email(calls[c].raw)
         user == first_by_email(email)
         row == [id |-> nextId, email |-> email,
                 password_hash |-> bcrypt_hash(calls[c].password, 1)]
     IN IF user = <<>>
        THEN /\ store' = store \cup {row}
             /\ nextId' = nextId + 1
             /\ calls' = [calls EXCEPT ![c].email = email, ![c].user = <<row>>,
                                       ![c].pc = "verify"]
        ELSE /\ calls' = [calls EXCEPT ![c].email = email, ![c].user = user,
                                       ![c].pc = "verify"]
             /\ UNCHANGED <<store, nextId>>
  /\ UNCHANGED probe

\* login, steps 1 and 2 with the query on the e-mail as the request sends it
LoginLookupRaw(c) ==
  /\ calls[c].op = "login" /\ calls[c].pc = "lookup"
  /\ LET email == normalize_email(calls[c].raw)
         user == first_by_email(calls[c].raw)
     IN IF user = <<>>
        THEN calls' = [calls EXCEPT ![c].email = email, ![c].pc = "done",
                                    ![c].out = <<InvalidAtLookup>>]
        ELSE calls' = [calls EXCEPT ![c].email = email, ![c].user = user,
                                    ![c].pc = "verify"]
  /\ UNCHANGED <<store, nextId, probe>>

\* login, steps 1 and 2
LoginLookup(c) ==
  /\ calls[c].op = "login" /\ calls[c].pc = "lookup"
  /\ LET email == normalize_email(calls[c].raw)
         user == first_by_email(email)
     IN IF user = <<>>
        THEN calls' = [calls EXCEPT ![c].email = email, ![c].pc = "done",
                                    ![c].out = <<InvalidAtLookup>>]
        ELSE calls' = [calls EXCEPT ![c].email = email, ![c].user = user,
                                    ![c].pc = "verify"]
  /\ UNCHANGED <<store, nextId, probe>>

\* login, step 3 without the check: any password passes
LoginVerifyAny(c) ==
  /\ calls[c].op = "login" /\ calls[c].pc = "verify"
  /\ calls' = [calls EXCEPT ![c].pc = "token"]
  /\ UNCHANGED <<store, nextId, probe>>

\* login, step 3
LoginVerify(c) ==
  /\ calls[c].op = "login" /\ calls[c].pc = "verify"
  /\ IF ~bcrypt_verify(calls[c].password, calls[c].user[1].password_hash)
     THEN Finish(c, InvalidAtVerify)
     ELSE calls' = [calls EXCEPT ![c].pc = "token"]
  /\ UNCHANGED <<store, nextId, probe>>

\* login, steps 4 and 5 with the e-mail as the token's subject
LoginTokenByEmail(c) ==
  /\ calls[c].op = "login" /\ calls[c].pc = "token"
  /\ Finish(c, TokenOut(200, create_access_token(calls[c].user[1].email)))
  /\ UNCHANGED <<store, nextId, probe>>

\* login, steps 4 and 5
LoginToken(c) ==
  /\ calls[c].op = "login" /\ calls[c].pc = "token"
  /\ Finish(c, TokenOut(200, create_access_token(str(calls[c].user[1].id))))
  /\ UNCHANGED <<store, nextId, probe>>

\* the collaborator called at this step raises; no handler catches it, so it
\* leaves the handler as it is.  The session's pending work is discarded.
\* raised records which exception the collaborator raised.
Fault(c) ==
  /\ calls[c].pc \in {"precheck", "hash", "commit", "refresh", "token", "lookup", "verify"}
  /\ calls' = [calls EXCEPT ![c].pc = "done",
                            ![c].out = <<Propagated(FaultAt(calls[c].pc))>>,
                            ![c].raised = <<FaultAt(calls[c].pc)>>]
  /\ UNCHANGED <<store, nextId, probe>>

Next ==
  \E c \in Calls :
    \/ Invoke(c)
    \/ RegPreCheck(c)
    \/ RegHash(c)
    \/ RegCommit(c)
    \/ RegRefresh(c)
    \/ RegToken(c)
    \/ LoginLookup(c)
    \/ LoginVerify(c)
    \/ LoginToken(c)
    \/ Return(c)

\* the handlers with every collaborator available
Spec == Init /\ [][Next]_vars

NextFaults ==
  \/ Next
  \/ \E c \in Calls : Fault(c)

\* the handlers with collaborators that can fail at any call
SpecFaults == Init /\ [][NextFaults]_vars

\* the next step of call c's handler, its collaborator answering
Progress(c) ==
  \/ RegPreCheck(c)
  \/ RegHash(c)
  \/ RegCommit(c)
  \/ RegRefresh(c)
  \/ RegToken(c)
  \/ LoginLookup(c)
  \/ LoginVerify(c)
  \/ LoginToken(c)

\* the handlers are synchronous functions, each run to its end by its worker
\* thread: a handler whose next step can be taken takes it or is failed by
\* its collaborator.  Nothing obliges a request to arrive, a collaborator to
\* fail, or a finished response to be collected.
SpecFair == SpecFaults /\ \A c \in Calls : WF_vars(Progress(c))

\* NumCalls requests, each arriving once
NextOnce == \E c \in Calls : Invoke(c) \/ Progress(c) \/ Fault(c)

\* SpecFair without the reuse of a finished handler's slot
SpecFairOnce == Init /\ [][NextOnce]_vars /\ \A c \in Calls : WF_vars(Progress(c))

-----------------------------------------------------------------------------
(* The normaliser on its own: apply it to an input, then to its own result *)

NormChars == {" ", "\t", "E", "e"}

Example == <<" ", "E", "@", "X", ".", "c", "o", "m", " ">>

NormInputs == SeqsUpTo(NormChars, MaxNormLen) \cup {Example}

InitNorm ==
  /\ calls = [c \in Calls |-> Idle]
  /\ store = {}
  /\ nextId = 1
  /\ probe \in {[NoProbe EXCEPT !.in = e] : e \in NormInputs}

NormOnce ==
  /\ probe.stage = 0
  /\ probe' = [probe EXCEPT !.stage = 1, !.once = normalize_email(probe.in)]
  /\ UNCHANGED <<calls, store, nextId>>

NormTwice ==
  /\ probe.stage = 1
  /\ probe' = [probe EXCEPT !.stage = 2, !.twice = normalize_email(probe.once)]
  /\ UNCHANGED <<calls, store, nextId>>

NextNorm == NormOnce \/ NormTwice

SpecNorm == InitNorm /\ [][NextNorm]_vars

-----------------------------------------------------------------------------
(* Vocabulary of the properties *)

Ended(c, op) == calls[c].op = op /\ calls[c].pc = "done"

Out(c) == calls[c].out[1]

GotToken(c) == Out(c).kind = "return"

Subject(c) == Out(c).token[1].access_token.sub

\* the ids of the rows a register call has inserted
Created(c) ==
  IF calls[c].op = "register" /\ calls[c].user # <<>> /\ calls[c].user[1].id # 0
  THEN {calls[c].user[1].id}
  ELSE {}

SameAddress(c, d) == normalize_email(calls[c].raw) = normalize_email(calls[d].raw)

EmailAlreadyRegistered ==
  [kind |-> "HTTPException", status |-> 409, detail |-> "Email already registered",
   token |-> <<>>]

InvalidCredentials ==
  [kind |-> "HTTPException", status |-> 401, detail |-> "Invalid credentials",
   token |-> <<>>]


-----------------------------------------------------------------------------
(* Properties *)

\* C1: two register calls for one normalized e-mail and different passwords,
\* each arriving while the address is free and no other request taking it:
\* when both have ended, one has returned a token, the other has failed with
\* 409 'Email already registered', and one account holds the address.
C1_OneWinner ==
  \A c, d \in Calls :
    ( /\ c # d
      /\ Ended(c, "register") /\ Ended(d, "register")
      /\ SameAddress(c, d)
      /\ calls[c].password # calls[d].password
      /\ calls[c].before = {} /\ calls[d].before = {}
      /\ \A a \in Holders(calls[c].raw) : a.id \in Created(c) \cup Created(d) )
    => /\ \/ GotToken(c) /\ Out(d) = EmailAlreadyRegistered
          \/ GotToken(d) /\ Out(c) = EmailAlreadyRegistered
       /\ Cardinality(Holders(calls[c].raw)) = 1

\* two racing registers have both ended, the loser rejected by the commit
C1_Witness ==
  \E c, d \in Calls :
    /\ c # d
    /\ Ended(c, "register") /\ Ended(d, "register")
    /\ SameAddress(c, d) /\ calls[c].raw # calls[d].raw
    /\ calls[c].password # calls[d].password
    /\ calls[c].before = {} /\ calls[d].before = {}
    /\ GotToken(c)
    /\ calls[d].user # <<>> /\ Out(d) = EmailAlreadyRegistered

\* C2: no two accounts of the store have the same normalized e-mail.
C2_UniqueEmail ==
  \A a, b \in store : a # b => normalize_email(a.email) # normalize_email(b.email)

\* two accounts exist, and a register for a taken address has been through its commit
C2_Witness ==
  /\ Cardinality(store) = 2
  /\ \E c \in Calls :
       Ended(c, "register") /\ calls[c].user # <<>> /\ Out(c) = EmailAlreadyRegistered

\* C3: a login that finds no account and a login that finds one and fails the
\* password check end with the same response: 401 'Invalid credentials'.
C3_SameFailure ==
  \A c, d \in Calls :
    ( /\ Ended(c, "login") /\ calls[c].user = <<>>
      /\ Ended(d, "login") /\ calls[d].user # <<>> /\ ~GotToken(d) )
    => Out(c) = Out(d) /\ Out(c) = InvalidCredentials

\* one login has failed on an unregistered address, another on a wrong password
C3_Witness ==
  \E c, d \in Calls :
    /\ Ended(c, "login") /\ calls[c].user = <<>>
    /\ Ended(d, "login") /\ calls[d].user # <<>> /\ ~GotToken(d)
    /\ calls[c].password = calls[d].password

\* C4: a register that arrives when an account already holds a spelling of
\* its e-mail fails with 409 'Email already registered' and inserts no row.
C4_LaterRegisterRejected ==
  \A c \in Calls :
    (Ended(c, "register") /\ calls[c].before # {})
    => Out(c) = EmailAlreadyRegistered /\ Created(c) = {}

\* a register spelled differently from the stored address has been rejected
C4_Witness ==
  \E c \in Calls :
    /\ Ended(c, "register") /\ calls[c].before # {}
    /\ \E a \in Holders(calls[c].raw) : a.email # calls[c].raw
    /\ Out(c) = EmailAlreadyRegistered

\* C5: a login with the e-mail and password of a successful register, arriving
\* once that register's account exists, returns a token whose subject is the
\* id of that account, the subject of the token register returned.
C5_LoginAfterRegister ==
  \A r, l \in Calls :
    ( /\ Ended(r, "register") /\ GotToken(r)
      /\ Ended(l, "login")
      /\ calls[l].raw = calls[r].raw /\ calls[l].password = calls[r].password
      /\ Created(r) \subseteq calls[l].before )
    => /\ GotToken(l)
       /\ Subject(l) = Subject(r)
       /\ \E a \in store : Created(r) = {a.id} /\ Subject(l) = str(a.id)

\* a login that followed a successful register of the second account has ended
C5_Witness ==
  \E r, l \in Calls :
    /\ Ended(r, "register") /\ GotToken(r)
    /\ Ended(l, "login")
    /\ calls[l].raw = calls[r].raw /\ calls[l].password = calls[r].password
    /\ Created(r) \subseteq calls[l].before
    /\ Created(r) = {2}

\* C6: a register that ends in any error has inserted no row.
C6_FailureCreatesNothing ==
  \A c \in Calls : (Ended(c, "register") /\ ~GotToken(c)) => Created(c) = {}

\* C7: a register rejected by the pre-check and a register rejected by the
\* commit end with the same response: 409 'Email already registered'.
C7_SameDuplicate ==
  \A c, d \in Calls :
    ( /\ Ended(c, "register") /\ calls[c].user = <<>>
      /\ Ended(d, "register") /\ calls[d].user # <<>> /\ Created(d) = {} )
    => Out(c) = Out(d) /\ Out(c) = EmailAlreadyRegistered

\* one register has been rejected by the pre-check, another by the commit
C7_Witness ==
  \E c, d \in Calls :
    /\ Ended(c, "register") /\ calls[c].user = <<>>
    /\ Ended(d, "register") /\ calls[d].user # <<>> /\ Created(d) = {}
    /\ Out(c) = EmailAlreadyRegistered /\ Out(d) = EmailAlreadyRegistered

\* C8: no step of a login call changes the store: the accounts and each
\* account's id, e-mail and password hash stay as they are.
C8_LoginFrame ==
  [][(\E c \in Calls : calls[c].op = "login" /\ calls'[c] # calls[c])
       => store' = store /\ nextId' = nextId]_vars

\* logins have ended both ways with accounts in the store
C8_Witness ==
  /\ store # {}
  /\ \E c, d \in Calls :
       /\ Ended(c, "login") /\ GotToken(c)
       /\ Ended(d, "login") /\ ~GotToken(d)

\* C9: a login with the e-mail of a successful register and a different
\* password fails with 401 'Invalid credentials'.
C9_WrongPasswordRejected ==
  \A r, l \in Calls :
    ( /\ Ended(r, "register") /\ GotToken(r)
      /\ Ended(l, "login")
      /\ SameAddress(l, r)
      /\ calls[l].password # calls[r].password )
    => Out(l) = InvalidCredentials

\* C10: normalising a normalised e-mail changes nothing, and " E@X.com "
\* normalises to "e@x.com".
C10_Idempotent ==
  /\ probe.stage = 2 => probe.twice = probe.once
  /\ (probe.stage >= 1 /\ probe.in = Example)
       => probe.once = <<"e", "@", "x", ".", "c", "o", "m">>

\* the normaliser has run twice on an input it changes at both ends
C10_Witness ==
  /\ probe.stage = 2
  /\ probe.in # probe.once
  /\ Len(probe.in) = Len(probe.once) + 2

\* C11: a call in which the store or the hasher raised ends with that
\* exception leaving the handler as raised: not 401 'Invalid credentials', not
\* 409 'Email already registered', and without a token.
C11_FaultPropagates ==
  \A c \in Calls :
    ( /\ calls[c].pc = "done"
      /\ calls[c].raised # <<>>
      /\ calls[c].raised[1] \in {"StoreUnreachable", "HashingUnavailable"} )
    => /\ Out(c) = [kind |-> "fault", status |-> 500, detail |-> calls[c].raised[1],
                    token |-> <<>>]
       /\ Out(c) # InvalidCredentials
       /\ Out(c) # EmailAlreadyRegistered

\* the hasher has failed a login's verify and the store a register's refresh
C11_Witness ==
  \E c, d \in Calls :
    /\ Ended(c, "login") /\ calls[c].user # <<>>
    /\ calls[c].raised = <<"HashingUnavailable">>
    /\ Ended(d, "register") /\ Created(d) # {}
    /\ calls[d].raised = <<"StoreUnreachable">>

\* C12: a login that has returned a token found an account whose e-mail is
\* the normalized e-mail of the request and whose hash the request's password
\* verifies against; the token's subject is that account's id and the id of
\* no other account.
C12_TokenOnlyIfVerified ==
  \A l \in Calls :
    (Ended(l, "login") /\ GotToken(l))
    => \E a \in store :
         /\ a.email = normalize_email(calls[l].raw)
         /\ bcrypt_verify(calls[l].password, a.password_hash)
         /\ Subject(l) = str(a.id)
         /\ \A b \in store : b # a => Subject(l) # str(b.id)

\* with two accounts in the store, a login has a token and another, for the
\* same address with another password, has none
C12_Witness ==
  /\ Cardinality(store) = 2
  /\ \E l, m \in Calls :
       /\ Ended(l, "login") /\ GotToken(l)
       /\ Ended(m, "login") /\ calls[m].user # <<>> /\ Out(m) = InvalidCredentials
       /\ SameAddress(l, m)

\* C13: every account's stored e-mail is in normalized form, and the e-mail
\* a handler queries and inserts is the normalized e-mail of its request.
C13_StoredNormalized ==
  /\ \A a \in store : normalize_email(a.email) = a.email
  /\ \A c \in Calls :
       /\ calls[c].email # <<>> => calls[c].email = normalize_email(calls[c].raw)
       /\ calls[c].user # <<>> => calls[c].user[1].email = normalize_email(calls[c].raw)

\* an account exists whose register was sent another spelling of its e-mail
C13_Witness ==
  \E c \in Calls :
    /\ Created(c) # {}
    /\ \E a \in store : a.id \in Created(c) /\ a.email # calls[c].raw

\* C14: a login with the password of a successful register and any spelling
\* of its e-mail, arriving once that register's account exists, returns a
\* token whose subject is the id of that account.
C14_LoginAnySpelling ==
  \A r, l \in Calls :
    ( /\ Ended(r, "register") /\ GotToken(r)
      /\ Ended(l, "login")
      /\ SameAddress(l, r)
      /\ calls[l].password = calls[r].password
      /\ Created(r) \subseteq calls[l].before )
    => /\ GotToken(l)
       /\ \A id \in Created(r) : Subject(l) = str(id)

\* a login spelled differently from the register it follows has ended
C14_Witness ==
  \E r, l \in Calls :
    /\ Ended(r, "register") /\ GotToken(r)
    /\ Ended(l, "login")
    /\ SameAddress(l, r) /\ calls[l].raw # calls[r].raw
    /\ calls[l].user # <<>> /\ calls[l].raw # calls[l].user[1].email
    /\ calls[l].password = calls[r].password
    /\ Created(r) \subseteq calls[l].before

\* a register rejected for a taken e-mail, and a login for that e-mail with
\* the rejected password that arrived while the account existed, have ended
RejectedThenLogin(j, l) ==
  /\ Ended(j, "register") /\ Out(j) = EmailAlreadyRegistered
  /\ Ended(l, "login")
  /\ SameAddress(l, j)
  /\ calls[l].password = calls[j].password
  /\ calls[l].before # {}

Rank(pc) ==
  CASE pc = "idle" -> 0
    [] pc \in {"precheck", "lookup"} -> 1
    [] pc \in {"hash", "verify"} -> 2
    [] pc = "commit" -> 3
    [] pc = "refresh" -> 4
    [] pc = "token" -> 5
    [] pc = "done" -> 6

Running(c) == calls[c].pc \notin {"idle", "done"}

\* C16: every call that has arrived ends; it has an outcome exactly when it
\* has ended, and that outcome is a token, a 401 or 409, or the exception a
\* collaborator raised; while it runs its next step can be taken whatever the
\* other calls are doing; and every step takes it further, none back.
C16_EveryCallEnds ==
  /\ \A c \in Calls : Running(c) ~> (calls[c].pc = "done")
  /\ [](\A c \in Calls :
          /\ Len(calls[c].out) = (IF calls[c].pc = "done" THEN 1 ELSE 0)
          /\ calls[c].pc = "done" =>
               \/ GotToken(c) /\ Len(Out(c).token) = 1
               \/ Out(c) \in {InvalidCredentials, EmailAlreadyRegistered}
               \/ Out(c).kind = "fault" /\ calls[c].raised = <<Out(c).detail>>
          /\ Running(c) => ENABLED <<Progress(c)>>_vars)
  /\ [][\A c \in Calls :
          (Running(c) /\ calls'[c] # calls[c])
          => Rank(calls'[c].pc) > Rank(calls[c].pc)]_vars

\* two registers for one address have run together and both have ended, one
\* of them rejected at its commit
C16_Witness ==
  \E c, d \in Calls :
    /\ c # d
    /\ Ended(c, "register") /\ Ended(d, "register")
    /\ SameAddress(c, d)
    /\ calls[c].before = {} /\ calls[d].before = {}
    /\ Created(c) # {}
    /\ calls[d].user # <<>> /\ Created(d) = {}
    /\ Out(d) = EmailAlreadyRegistered

====
